---- MODULE Spec2Model ----
(***************************************************************************)
(* A model of idiots.py, the Streamlit "Material Management Dashboard".    *)
(*                                                                         *)
(* Streamlit re-executes the whole script on every user interaction.  One  *)
(* action of this model is one interaction: the widget state it changes,   *)
(* the callback it triggers (do_logout) and the complete script run that   *)
(* follows (the dispatch at the bottom of the file, then login_screen() or *)
(* dashboard()).  The state is st.session_state, the widget values the     *)
(* front end holds, the workbook on disk, and what the last run rendered.  *)
(***************************************************************************)
EXTENDS Integers, Sequences, FiniteSets

(***************************************************************************)
(* Bounds of the model.                                                    *)
(***************************************************************************)
\* Ticket dates fall on the calendar days 1..MaxDay.
MaxDay == 2
\* A day has the instants 0..TicksPerDay-1; instant 0 is midnight.
TicksPerDay == 2
\* Sidebar widgets that are moved away from their default at the same time.
MaxSidebarChanges == 1
\* Rows of the INCOMING MASTER sheet (the date widgets need one) and of the
\* OUTGOING MASTER sheet.
IncomingRowCounts == 1..2
OutgoingRowCounts == 0..1

Days == 1..MaxDay
Ticks == 0..(TicksPerDay - 1)

(***************************************************************************)
(* Floating point values, kept exact: a finite value is a reduced fraction *)
(* num/den; division by zero gives inf or nan as numpy/pandas do.          *)
(***************************************************************************)
RECURSIVE GCD(_, _)
GCD(a, b) == IF b = 0 THEN a ELSE GCD(b, a % b)

Fin(n, d) ==
    LET g == GCD(n, d)
    IN  [kind |-> "fin", num |-> n \div g, den |-> d \div g]

Num(n) == [kind |-> "fin", num |-> n, den |-> 1]
NaN == [kind |-> "nan", num |-> 0, den |-> 1]
Inf == [kind |-> "inf", num |-> 0, den |-> 1]

\* float / float of two non-negative integer-valued operands
TrueDiv(a, b) ==
    IF b > 0 THEN Fin(a, b)
    ELSE IF a = 0 THEN NaN ELSE Inf

IsNa(x) == x.kind = "nan"
\* x > 0 and x == 0 on a float cell: both are False on NaN
GtZero(x) == x.kind = "inf" \/ (x.kind = "fin" /\ x.num > 0)
EqZero(x) == x.kind = "fin" /\ x.num = 0

(***************************************************************************)
(* Strings whose whitespace matters are sequences of characters.           *)
(***************************************************************************)
RECURSIVE LStrip(_)
LStrip(s) == IF s # <<>> /\ Head(s) = " " THEN LStrip(Tail(s)) ELSE s

RECURSIVE RStrip(_)
RStrip(s) ==
    IF s # <<>> /\ s[Len(s)] = " " THEN RStrip(SubSeq(s, 1, Len(s) - 1)) ELSE s

\* str.strip()
Strip(s) == RStrip(LStrip(s))

\* The "All" entry of the waste-type multiselect.
AllTypes == <<"A", "l", "l">>

(***************************************************************************)
(* The workbook "Material incoming dashboard.xlsx": two sheets, each a     *)
(* set of column headers (as line 84-85 leave them, stripped) and a        *)
(* sequence of rows.  A row carries every field; the field of a column the *)
(* sheet lacks holds an empty cell.                                        *)
(***************************************************************************)
RequiredColumns == {"Ticket Date", "Customer Name", "Waste Type ID", "Net Weight (tn)"}

Instant(d, t) == d * TicksPerDay + t

BaseRow ==
    [ticket_date |-> Instant(1, 0), customer |-> "c1", waste |-> <<"A">>,
     weight |-> 10, cost |-> Num(100), grade |-> "Ferrous"]

Weights == {0, 10}
Costs == {NaN, Num(0), Num(100)}

\* Rows that differ from BaseRow in the ticket date; in weight and cost (with
\* the light, cheap row of the weighted-average example); in customer, waste
\* type and grade.
DateRows == {[BaseRow EXCEPT !.ticket_date = Instant(d, t)] : d \in Days, t \in Ticks}
CostRows ==
    {[BaseRow EXCEPT !.weight = w, !.cost = c] : w \in Weights, c \in Costs}
        \cup {[BaseRow EXCEPT !.weight = 1, !.cost = Num(50)]}
PartyRows ==
    {[BaseRow EXCEPT !.customer = "c2"],
     [BaseRow EXCEPT !.waste = <<" ", "B">>, !.grade = "Non-Ferrous"],
     [BaseRow EXCEPT !.customer = "c2", !.waste = <<" ", "B">>, !.cost = Num(0)]}

\* Rows of the one-row workbooks that lack optional columns.
SchemaRows == {[BaseRow EXCEPT !.weight = w] : w \in Weights}

IncomingRows == DateRows \cup CostRows \cup PartyRows
OutgoingRows ==
    {[BaseRow EXCEPT !.cost = NaN],
     [BaseRow EXCEPT !.ticket_date = Instant(1, TicksPerDay - 1)],
     [BaseRow EXCEPT !.ticket_date = Instant(MaxDay, 0), !.customer = "c2",
                     !.waste = <<" ", "B">>, !.weight = 1]}

Sheets(S, counts) == UNION {[1..n -> S] : n \in counts}

FullIncomingColumns == RequiredColumns \cup {"Cost", "Grade"}
FullOutgoingColumns == RequiredColumns \cup {"Cost", "Grade"}

Workbook(incoming_columns, incoming_rows, outgoing_columns, outgoing_rows) ==
    [incoming |-> [columns |-> incoming_columns, rows |-> incoming_rows],
     outgoing |-> [columns |-> outgoing_columns, rows |-> outgoing_rows]]

\* The row r in a sheet that has only these optional columns.
Cells(r, optional) ==
    [r EXCEPT !.cost = IF "Cost" \in optional THEN r.cost ELSE NaN,
              !.grade = IF "Grade" \in optional THEN r.grade ELSE ""]

\* Workbooks with every optional column, and one-row workbooks in which
\* optional columns are missing.
Workbooks ==
    {Workbook(FullIncomingColumns, i, FullOutgoingColumns, o) :
        i \in Sheets(IncomingRows, IncomingRowCounts),
        o \in Sheets(OutgoingRows, OutgoingRowCounts)}
    \cup
    {Workbook(RequiredColumns \cup ic, <<Cells(r, ic)>>,
              RequiredColumns \cup oc, <<Cells(BaseRow, oc)>>) :
        ic \in SUBSET {"Cost", "Grade"}, oc \in SUBSET {"Cost", "Grade"}, r \in SchemaRows}

\* A few workbooks whose widgets offer every kind of choice.
FewWorkbooks ==
    {Workbook(FullIncomingColumns, <<BaseRow, r>>, FullOutgoingColumns, <<o>>) :
        r \in PartyRows \cup {[BaseRow EXCEPT !.ticket_date = Instant(MaxDay, TicksPerDay - 1)]},
        o \in OutgoingRows}

(***************************************************************************)
(* pandas on a frame (a sequence of rows).                                 *)
(***************************************************************************)
RECURSIVE Take(_, _, _)
Take(df, mask, i) ==
    IF i > Len(df) THEN <<>>
    ELSE (IF mask[i] THEN <<df[i]>> ELSE <<>>) \o Take(df, mask, i + 1)

\* df[mask], mask a boolean Series over df's index
BoolIndex(df, mask) == Take(df, mask, 1)

\* Series.between with inclusive="left"
BetweenRightOpen(x, left, right) == left <= x /\ x < right

\* Series.between(left, right): inclusive on both sides
Between(x, left, right) == left <= x /\ x <= right

RECURSIVE SumWeight(_)
\* df["Net Weight (tn)"].sum()
SumWeight(df) == IF df = <<>> THEN 0 ELSE Head(df).weight + SumWeight(Tail(df))

RECURSIVE SumCost(_)
\* df["Cost"].sum(): NaN cells are skipped
SumCost(df) ==
    IF df = <<>> THEN 0
    ELSE (IF IsNa(Head(df).cost) THEN 0 ELSE Head(df).cost.num) + SumCost(Tail(df))

\* Timestamp.date()
DateOf(ts) == ts \div TicksPerDay
\* pd.to_datetime(date): midnight of that day
ToDatetime(d) == d * TicksPerDay

SetMin(S) == CHOOSE x \in S : \A y \in S : x <= y
SetMax(S) == CHOOSE x \in S : \A y \in S : x >= y

TicketDates(df) == {df[i].ticket_date : i \in DOMAIN df}

(***************************************************************************)
(* dashboard(): loading the workbook (lines 80-93).                        *)
(***************************************************************************)
\* The lambda of line 91, with Python's conditional expression: the weight
\* is tested first and row["Cost"] is read only when it is positive.
CostPerTonne(row) ==
    IF row.weight > 0
    THEN (IF IsNa(row.cost) THEN NaN ELSE Fin(row.cost.num, row.weight))
    ELSE Num(0)

\* row["Cost"] raises KeyError when the sheet has no Cost column.
LoadRaises(wb) ==
    /\ "Cost" \notin wb.incoming.columns
    /\ \E i \in DOMAIN wb.incoming.rows : wb.incoming.rows[i].weight > 0

LoadIncoming(wb) ==
    [i \in DOMAIN wb.incoming.rows |->
        LET r == wb.incoming.rows[i]
        IN  [ticket_date |-> r.ticket_date, customer |-> r.customer,
             waste |-> r.waste, weight |-> r.weight, cost |-> r.cost,
             grade |-> r.grade, cost_per_tonne |-> CostPerTonne(r)]]

LoadOutgoing(wb) == wb.outgoing.rows

(***************************************************************************)
(* dashboard(): the two widget groups (lines 111-149).                     *)
(***************************************************************************)
\* No widget of the dashboard is on the page.
NoWidgets == [date_range |-> <<0, 0>>, customer |-> "", waste_type |-> {}, price_filter |-> ""]

\* incoming_df["Waste Type ID"].astype(str).str.strip().unique()
WasteTypeOptions(df) == {Strip(df[i].waste) : i \in DOMAIN df}
\* ["All"] + list(incoming_df["Customer Name"].unique())
CustomerOptions(df) == {"All"} \cup {df[i].customer : i \in DOMAIN df}
PriceOptions == {"All", "Priced", "Not Priced"}

MinDate(df) == DateOf(SetMin(TicketDates(df)))
MaxDate(df) == DateOf(SetMax(TicketDates(df)))

\* What a widget group shows on its first render.
DefaultWidgets(df) ==
    [date_range |-> <<MinDate(df), MaxDate(df)>>, customer |-> "All",
     waste_type |-> {AllTypes}, price_filter |-> "All"]

\* Every selection a widget group offers over the frame df.
WidgetChoices(df) ==
    [date_range : {r \in (MinDate(df)..MaxDate(df)) \X (MinDate(df)..MaxDate(df)) : r[1] <= r[2]},
     customer : CustomerOptions(df),
     waste_type : SUBSET ({AllTypes} \cup WasteTypeOptions(df)),
     price_filter : PriceOptions]

\* A widget without stored state renders with its default.
WidgetValue(stored, default) == IF stored = NoWidgets THEN default ELSE stored

\* The expander's assignments lost: the sidebar's values are read.
EffectiveFiltersSidebar(sidebar_value, mobile_value) == sidebar_value

\* date_range, customer, waste_type and price_filter are assigned from the
\* sidebar widgets (lines 115-128) and assigned again from the expander
\* widgets (lines 134-148): the later assignment is the one that is read.
EffectiveFilters(sidebar_value, mobile_value) == mobile_value

\* if "All" in waste_type: waste_type = waste_type_options
ResolveWasteType(waste_type, waste_type_options) ==
    IF AllTypes \in waste_type THEN waste_type_options ELSE waste_type

(***************************************************************************)
(* dashboard(): the filters (lines 154-173).                               *)
(***************************************************************************)
\* The mask of lines 157-158 and 161-162.
DateWasteMask(df, start_date, end_date, waste_type) ==
    [i \in DOMAIN df |->
        /\ Between(df[i].ticket_date, start_date, end_date)
        /\ Strip(df[i].waste) \in waste_type]

CustomerMask(df, customer) == [i \in DOMAIN df |-> df[i].customer = customer]

\* filtered_incoming["Cost"] > 0
PricedMask(df) == [i \in DOMAIN df |-> GtZero(df[i].cost)]
\* (filtered_incoming["Cost"] == 0) | (filtered_incoming["Cost"].isna())
NotPricedMask(df) == [i \in DOMAIN df |-> EqZero(df[i].cost) \/ IsNa(df[i].cost)]

\* lines 165-167, on either frame
CustomerFilter(df, customer) ==
    IF customer # "All" THEN BoolIndex(df, CustomerMask(df, customer)) ELSE df

\* lines 170-173
PriceFilter(df, price_filter) ==
    IF price_filter = "Priced" THEN BoolIndex(df, PricedMask(df))
    ELSE IF price_filter = "Not Priced" THEN BoolIndex(df, NotPricedMask(df))
    ELSE df

\* filtered_incoming["Cost"] raises KeyError when there is no Cost column.
PriceFilterRaises(columns, price_filter) ==
    price_filter \in {"Priced", "Not Priced"} /\ "Cost" \notin columns

\* The price filter applied to the Outgoing view as well.
ApplyFiltersPriceOnBoth(incoming_df, outgoing_df, date_range, customer, waste_type, price_filter) ==
    LET start_date == ToDatetime(date_range[1])
        end_date == ToDatetime(date_range[2])
        date_waste_in == BoolIndex(incoming_df,
                            DateWasteMask(incoming_df, start_date, end_date, waste_type))
        date_waste_out == BoolIndex(outgoing_df,
                            DateWasteMask(outgoing_df, start_date, end_date, waste_type))
    IN  [filtered_incoming |-> PriceFilter(CustomerFilter(date_waste_in, customer), price_filter),
         filtered_outgoing |-> PriceFilter(CustomerFilter(date_waste_out, customer), price_filter)]

\* lines 154-173: both filtered views
ApplyFilters(incoming_df, outgoing_df, date_range, customer, waste_type, price_filter) ==
    LET start_date == ToDatetime(date_range[1])
        end_date == ToDatetime(date_range[2])
        date_waste_in == BoolIndex(incoming_df,
                            DateWasteMask(incoming_df, start_date, end_date, waste_type))
        date_waste_out == BoolIndex(outgoing_df,
                            DateWasteMask(outgoing_df, start_date, end_date, waste_type))
    IN  [filtered_incoming |-> PriceFilter(CustomerFilter(date_waste_in, customer), price_filter),
         filtered_outgoing |-> CustomerFilter(date_waste_out, customer)]

(***************************************************************************)
(* dashboard(): the KPIs (lines 178-181).                                  *)
(***************************************************************************)
\* filtered_incoming["Cost"].sum() if "Cost" in filtered_incoming.columns else 0
TotalCost(filtered_incoming, columns) ==
    IF "Cost" \in columns THEN SumCost(filtered_incoming) ELSE 0

\* The guard on the numerator instead of the denominator.
AvgCostTnGuardOnCost(total_cost, incoming_total) ==
    IF total_cost > 0 THEN TrueDiv(total_cost, incoming_total) ELSE Num(0)

\* total_cost / incoming_total if incoming_total > 0 else 0
AvgCostTn(total_cost, incoming_total) ==
    IF incoming_total > 0 THEN TrueDiv(total_cost, incoming_total) ELSE Num(0)

(***************************************************************************)
(* dashboard(): the chart data (lines 198-277).                            *)
(***************************************************************************)
ByWaste(df, k) == BoolIndex(df, [i \in DOMAIN df |-> df[i].waste = k])
ByGrade(df, k) == BoolIndex(df, [i \in DOMAIN df |-> df[i].grade = k])
ByTicketDate(df, k) == BoolIndex(df, [i \in DOMAIN df |-> df[i].ticket_date = k])

\* df.groupby("Waste Type ID")["Net Weight (tn)"].sum(), tagged with Type
WeightByWaste(df, type) ==
    {[key |-> k, weight |-> SumWeight(ByWaste(df, k)), Type |-> type] :
        k \in {df[i].waste : i \in DOMAIN df}}

\* df.groupby("Grade")["Net Weight (tn)"].sum()
WeightByGrade(df) ==
    {[key |-> k, weight |-> SumWeight(ByGrade(df, k))] :
        k \in {df[i].grade : i \in DOMAIN df}}

\* df.groupby("Ticket Date")["Net Weight (tn)"].sum(), tagged with Type
WeightByTicketDate(df, type) ==
    {[key |-> k, weight |-> SumWeight(ByTicketDate(df, k)), Type |-> type] :
        k \in TicketDates(df)}

\* lines 201-206
WasteCombined(filtered_incoming, filtered_outgoing) ==
    IF filtered_incoming # <<>> \/ filtered_outgoing # <<>>
    THEN WeightByWaste(filtered_incoming, "Incoming")
            \cup WeightByWaste(filtered_outgoing, "Outgoing")
    ELSE {}

\* lines 225-226 and 233-234
PieData(filtered, columns) ==
    IF filtered # <<>> /\ "Grade" \in columns THEN WeightByGrade(filtered) ELSE {}

\* lines 242-247
TrendDf(filtered_incoming, filtered_outgoing) ==
    IF filtered_incoming # <<>> \/ filtered_outgoing # <<>>
    THEN WeightByTicketDate(filtered_incoming, "Incoming")
            \cup WeightByTicketDate(filtered_outgoing, "Outgoing")
    ELSE {}

\* daily_cpt["Cost"] / daily_cpt["Net Weight (tn)"], a division of two Series
DailyRatio(daily_cost, daily_weight) == TrueDiv(daily_cost, daily_weight)

\* lines 262-266
DailyCpt(filtered_incoming, columns) ==
    IF filtered_incoming # <<>> /\ "Cost" \in columns
    THEN {[key |-> k,
           cost |-> SumCost(ByTicketDate(filtered_incoming, k)),
           weight |-> SumWeight(ByTicketDate(filtered_incoming, k)),
           cost_per_tonne |-> DailyRatio(SumCost(ByTicketDate(filtered_incoming, k)),
                                         SumWeight(ByTicketDate(filtered_incoming, k)))] :
            k \in TicketDates(filtered_incoming)}
    ELSE {}

\* f"Waste_Report_{start_date.date()}_{end_date.date()}.xlsx"
FileName(date_range) ==
    <<"Waste_Report", DateOf(ToDatetime(date_range[1])), DateOf(ToDatetime(date_range[2])), "xlsx">>

(***************************************************************************)
(* One execution of dashboard() over the workbook wb with the widget state *)
(* the front end holds: what it leaves on the page.                        *)
(***************************************************************************)
NoCharts == [waste_combined |-> {}, pie_data_in |-> {}, pie_data_out |-> {},
             trend_df |-> {}, daily_cpt |-> {}]
NoKpis == [incoming_total |-> 0, outgoing_total |-> 0, total_cost |-> 0,
           avg_cost_tn |-> Num(0)]
NoFileName == <<"", 0, 0, "">>

\* The run stops at the exception: nothing after it is rendered.
Raised(exc, side, mob, in_df, out_df) ==
    [exception |-> exc, sidebar |-> side, mobile |-> mob,
     incoming_df |-> in_df, outgoing_df |-> out_df,
     filtered_incoming |-> <<>>, filtered_outgoing |-> <<>>,
     kpis |-> NoKpis, charts |-> NoCharts, file_name |-> NoFileName]

dashboard(wb, stored_sidebar, stored_mobile) ==
    IF LoadRaises(wb) THEN Raised("KeyError", NoWidgets, NoWidgets, <<>>, <<>>)
    ELSE
    LET incoming_df == LoadIncoming(wb)
        outgoing_df == LoadOutgoing(wb)
        side == WidgetValue(stored_sidebar, DefaultWidgets(incoming_df))
        mob == WidgetValue(stored_mobile, DefaultWidgets(incoming_df))
        used == EffectiveFilters(side, mob)
        waste_type == ResolveWasteType(used.waste_type, WasteTypeOptions(incoming_df))
    IN  IF PriceFilterRaises(wb.incoming.columns, used.price_filter)
        THEN Raised("KeyError", side, mob, incoming_df, outgoing_df)
        ELSE
        LET f == ApplyFilters(incoming_df, outgoing_df, used.date_range,
                              used.customer, waste_type, used.price_filter)
            incoming_total == SumWeight(f.filtered_incoming)
            outgoing_total == SumWeight(f.filtered_outgoing)
            total_cost == TotalCost(f.filtered_incoming, wb.incoming.columns)
        IN  [exception |-> "none", sidebar |-> side, mobile |-> mob,
             incoming_df |-> incoming_df, outgoing_df |-> outgoing_df,
             filtered_incoming |-> f.filtered_incoming,
             filtered_outgoing |-> f.filtered_outgoing,
             kpis |-> [incoming_total |-> incoming_total,
                       outgoing_total |-> outgoing_total,
                       total_cost |-> total_cost,
                       avg_cost_tn |-> AvgCostTn(total_cost, incoming_total)],
             charts |-> [waste_combined |-> WasteCombined(f.filtered_incoming, f.filtered_outgoing),
                         pie_data_in |-> PieData(f.filtered_incoming, wb.incoming.columns),
                         pie_data_out |-> PieData(f.filtered_outgoing, wb.outgoing.columns),
                         trend_df |-> TrendDf(f.filtered_incoming, f.filtered_outgoing),
                         daily_cpt |-> DailyCpt(f.filtered_incoming, wb.incoming.columns)],
             file_name |-> FileName(used.date_range)]

(***************************************************************************)
(* The login gate (lines 15-67).                                           *)
(***************************************************************************)
\* bcrypt, as a one-way function of the password
BcryptHash(password) == <<"$2a$12$", password>>

\* The stored hashes: each is the hash of a password only its user knows.
users == [admin |-> BcryptHash("admin's password"), god |-> BcryptHash("god's password")]

\* bcrypt.checkpw(password.encode(), hashed)
CheckPw(password, hashed) == BcryptHash(password) = hashed

check_password(user, password) ==
    IF user \in DOMAIN users THEN CheckPw(password, users[user]) ELSE FALSE

\* What is typed into the two text inputs.
Usernames == {"admin", "god", "mallory"}
Passwords == {"admin's password", "god's password"}

\* lines 15-20
InitialSessionState ==
    [logged_in |-> FALSE, username |-> "", login_error |-> FALSE,
     input_username |-> "", input_password |-> ""]

\* A logout that clears the form and the name but not the flag.
do_logout_keeps_flag(ss) ==
    [ss EXCEPT !.username = "", !.input_username = "", !.input_password = ""]

do_logout(ss) ==
    [ss EXCEPT !.logged_in = FALSE, !.username = "",
               !.input_username = "", !.input_password = ""]

\* lines 55-64: the session state login_screen() leaves
login_screen(ss, login_clicked) ==
    IF login_clicked
    THEN IF check_password(ss.input_username, ss.input_password)
         THEN [ss EXCEPT !.logged_in = TRUE, !.username = ss.input_username,
                         !.login_error = FALSE]
         ELSE [ss EXCEPT !.login_error = TRUE]
    ELSE ss

\* if not st.session_state.logged_in (line 310)
ShowsLogin(ss) == ~ss.logged_in

(***************************************************************************)
(* State.                                                                  *)
(***************************************************************************)
VARIABLES
    xlsx,               \* the workbook on disk
    session_state,      \* st.session_state
    page,               \* the function the last run executed: "login" or "dashboard"
    exception,          \* the exception that stopped the last run, or "none"
    sidebar,            \* the stored values of the sidebar widgets
    mobile,             \* the stored values of the expander widgets
    incoming_df,        \* the frames the last run loaded
    outgoing_df,
    filtered_incoming,  \* the filtered views of the last run
    filtered_outgoing,
    kpis,               \* incoming_total, outgoing_total, total_cost, avg_cost_tn
    charts,             \* the data frames behind the charts
    file_name           \* the name of the report offered for download

vars == <<xlsx, session_state, page, exception, sidebar, mobile, incoming_df,
          outgoing_df, filtered_incoming, filtered_outgoing, kpis, charts, file_name>>

\* The page after a run of login_screen(): no dashboard widget is rendered,
\* so the front end drops their state.
LoginPage ==
    /\ page' = "login"
    /\ exception' = "none"
    /\ sidebar' = NoWidgets
    /\ mobile' = NoWidgets
    /\ incoming_df' = <<>>
    /\ outgoing_df' = <<>>
    /\ filtered_incoming' = <<>>
    /\ filtered_outgoing' = <<>>
    /\ kpis' = NoKpis
    /\ charts' = NoCharts
    /\ file_name' = NoFileName

\* The page after a run r of dashboard().
DashboardPage(r) ==
    /\ page' = "dashboard"
    /\ exception' = r.exception
    /\ sidebar' = r.sidebar
    /\ mobile' = r.mobile
    /\ incoming_df' = r.incoming_df
    /\ outgoing_df' = r.outgoing_df
    /\ filtered_incoming' = r.filtered_incoming
    /\ filtered_outgoing' = r.filtered_outgoing
    /\ kpis' = r.kpis
    /\ charts' = r.charts
    /\ file_name' = r.file_name

\* One run of the script (lines 310-313) from session state ss, with the
\* Login button clicked or not and the widget state the front end sends.
Script(ss, login_clicked, stored_sidebar, stored_mobile) ==
    IF ShowsLogin(ss)
    THEN /\ session_state' = login_screen(ss, login_clicked)
         /\ LoginPage
    ELSE /\ session_state' = ss
         /\ DashboardPage(dashboard(xlsx, stored_sidebar, stored_mobile))

\* The first run of a session has happened on no page yet.
Start ==
    /\ session_state = InitialSessionState
    /\ page = "login"
    /\ exception = "none"
    /\ sidebar = NoWidgets
    /\ mobile = NoWidgets
    /\ incoming_df = <<>>
    /\ outgoing_df = <<>>
    /\ filtered_incoming = <<>>
    /\ filtered_outgoing = <<>>
    /\ kpis = NoKpis
    /\ charts = NoCharts
    /\ file_name = NoFileName

Init == xlsx \in Workbooks /\ Start

InitFew == xlsx \in FewWorkbooks /\ Start

(***************************************************************************)
(* The interactions.                                                       *)
(***************************************************************************)
\* The user fills in the login form and clicks Login.
Login ==
    /\ page = "login"
    /\ ~session_state.logged_in
    /\ \E u \in Usernames, p \in Passwords :
          Script([session_state EXCEPT !.input_username = u, !.input_password = p],
                 TRUE, sidebar, mobile)
    /\ UNCHANGED xlsx

\* Any interaction with the login page that is not a click on Login.
Rerun ==
    /\ page = "login"
    /\ Script(session_state, FALSE, sidebar, mobile)
    /\ UNCHANGED xlsx

\* The number of widgets in which two widget groups differ.
Differ(a, b) ==
    Cardinality({k \in {"date_range", "customer", "waste_type", "price_filter"} : a[k] # b[k]})

\* The user changes one widget of the expander.
ChangeMobile ==
    /\ page = "dashboard"
    /\ mobile # NoWidgets
    /\ \E m \in WidgetChoices(incoming_df) :
          /\ Differ(m, mobile) = 1
          /\ Script(session_state, FALSE, sidebar, m)
    /\ UNCHANGED xlsx

\* The user changes one widget of the sidebar.
ChangeSidebar ==
    /\ page = "dashboard"
    /\ sidebar # NoWidgets
    /\ \E s \in WidgetChoices(incoming_df) :
          /\ Differ(s, sidebar) = 1
          /\ Differ(s, DefaultWidgets(incoming_df)) <= MaxSidebarChanges
          /\ Script(session_state, FALSE, s, mobile)
    /\ UNCHANGED xlsx

\* The user clicks Logout: the callback runs, then the script.
Logout ==
    /\ page = "dashboard"
    /\ Script(do_logout(session_state), FALSE, sidebar, mobile)
    /\ UNCHANGED xlsx

\* Every interaction but those with the sidebar's filter widgets.
NextExpander == Login \/ Rerun \/ ChangeMobile \/ Logout

Next == Login \/ Rerun \/ ChangeMobile \/ ChangeSidebar \/ Logout

\* Every interaction, over a few workbooks.
Spec == InitFew /\ [][Next]_vars

\* Every workbook, the sidebar's filter widgets left as they are.
SpecExpander == Init /\ [][NextExpander]_vars

(***************************************************************************)
(* Properties.                                                             *)
(***************************************************************************)
\* The last run executed dashboard() to its end.
Completed == page = "dashboard" /\ exception = "none"

\* The filter specification of the last run, as the expander holds it.
start_day == mobile.date_range[1]
end_day == mobile.date_range[2]
resolved_waste_type == ResolveWasteType(mobile.waste_type, WasteTypeOptions(incoming_df))

\* The rows of df the date filter of lines 157 and 161 keeps, no other
\* filter constraining.
KeptByDate(df) ==
    DateWasteMask(df, ToDatetime(start_day), ToDatetime(end_day), WasteTypeOptions(df))

\* C1: a record of either set is kept by the date filter if and only if its
\* calendar date lies in [start_date, end_date], whatever its time of day.
C1_DateFilterByCalendarDate ==
    Completed =>
        /\ \A i \in DOMAIN incoming_df :
              KeptByDate(incoming_df)[i]
                  <=> (start_day <= DateOf(incoming_df[i].ticket_date)
                        /\ DateOf(incoming_df[i].ticket_date) <= end_day)
        /\ \A i \in DOMAIN outgoing_df :
              KeptByDate(outgoing_df)[i]
                  <=> (start_day <= DateOf(outgoing_df[i].ticket_date)
                        /\ DateOf(outgoing_df[i].ticket_date) <= end_day)

\* C2: with no Cost column in the incoming sheet, a run of dashboard() ends
\* without an exception under every price filter, and total_cost and
\* avg_cost_tn are 0.
C2_CostColumnOptional ==
    (page = "dashboard" /\ "Cost" \notin xlsx.incoming.columns) =>
        /\ exception = "none"
        /\ kpis.total_cost = 0
        /\ kpis.avg_cost_tn = Num(0)

\* C3: no entry of the weighted cost-per-tonne series is a division by a zero
\* daily weight: a date whose weight sums to 0 has no entry or the value 0,
\* and every entry is finite.
C3_SeriesNeverDividesByZero ==
    \A e \in charts.daily_cpt :
        /\ e.cost_per_tonne.kind = "fin"
        /\ e.weight = 0 => e.cost_per_tonne = Num(0)

\* C4: avg_cost_tn is the summed cost over the summed weight of the filtered
\* Incoming view when that weight is positive and 0 when it is 0; it is
\* always a finite number.
C4_WeightedAverage ==
    Completed =>
        /\ kpis.avg_cost_tn.kind = "fin"
        /\ SumWeight(filtered_incoming) > 0 =>
              /\ kpis.avg_cost_tn.num * SumWeight(filtered_incoming)
                    = SumCost(filtered_incoming) * kpis.avg_cost_tn.den
              /\ kpis.avg_cost_tn.den > 0
        /\ SumWeight(filtered_incoming) = 0 => kpis.avg_cost_tn = Num(0)

\* The weighted-average example: weights 10 and 1, costs 100 and 50 give
\* 150/11, not the mean 30 of the per-row ratios 10 and 50.
C4_Witness ==
    /\ Completed
    /\ Len(filtered_incoming) = 2
    /\ filtered_incoming[1].weight = 10 /\ filtered_incoming[1].cost = Num(100)
    /\ filtered_incoming[2].weight = 1 /\ filtered_incoming[2].cost = Num(50)
    /\ filtered_incoming[1].cost_per_tonne = Num(10)
    /\ filtered_incoming[2].cost_per_tonne = Num(50)
    /\ kpis.avg_cost_tn = [kind |-> "fin", num |-> 150, den |-> 11]

\* One filter of the specification, applied alone to a frame.
FilterStep(name, df) ==
    CASE name = "date" ->
            BoolIndex(df, [i \in DOMAIN df |->
                Between(df[i].ticket_date, ToDatetime(start_day), ToDatetime(end_day))])
      [] name = "waste" ->
            BoolIndex(df, [i \in DOMAIN df |-> Strip(df[i].waste) \in resolved_waste_type])
      [] name = "customer" -> CustomerFilter(df, mobile.customer)
      [] name = "price" -> PriceFilter(df, mobile.price_filter)

RECURSIVE InOrder(_, _)
\* The filters applied one after the other in the given order.
InOrder(order, df) ==
    IF order = <<>> THEN df ELSE InOrder(Tail(order), FilterStep(Head(order), df))

\* Every order of the given filters.
Orders(steps) ==
    {o \in [1..Cardinality(steps) -> steps] :
        \A i, j \in DOMAIN o : i # j => o[i] # o[j]}

\* The row satisfies the date, waste-type and customer predicates, each
\* judged on the row alone.
SatisfiesShared(r) ==
    /\ ToDatetime(start_day) <= r.ticket_date
    /\ r.ticket_date <= ToDatetime(end_day)
    /\ Strip(r.waste) \in resolved_waste_type
    /\ mobile.customer = "All" \/ r.customer = mobile.customer

\* The row satisfies the price-status predicate.
SatisfiesPrice(r) ==
    \/ mobile.price_filter = "All"
    \/ mobile.price_filter = "Priced" /\ r.cost.kind = "fin" /\ r.cost.num > 0
    \/ mobile.price_filter = "Not Priced"
        /\ (r.cost.kind = "nan" \/ (r.cost.kind = "fin" /\ r.cost.num = 0))

WeightInRange(first, last) ==
    SumWeight(ApplyFilters(incoming_df, outgoing_df, <<first, last>>, "All",
                           WasteTypeOptions(incoming_df), "All").filtered_incoming)

RECURSIVE WeightOverParts(_, _, _)
\* The sum of WeightInRange over the sub-ranges that the cuts make of [first, last].
WeightOverParts(first, cuts, last) ==
    IF first > last THEN 0
    ELSE LET part_end == SetMin({c \in cuts \cup {last} : c >= first})
         IN  WeightInRange(first, part_end) + WeightOverParts(part_end + 1, cuts, last)

\* C7: over every partition of the full date range into disjoint sub-ranges,
\* the incoming_total of the parts add up to the weight of the whole set.
C7_ConservationOverDatePartitions ==
    Completed =>
        \A cuts \in SUBSET (MinDate(incoming_df)..(MaxDate(incoming_df) - 1)) :
            WeightOverParts(MinDate(incoming_df), cuts, MaxDate(incoming_df))
                = SumWeight(incoming_df)

\* The filter specification, read by calendar date, matches the row.
MatchesSpecification(r) ==
    /\ start_day <= DateOf(r.ticket_date)
    /\ DateOf(r.ticket_date) <= end_day
    /\ Strip(r.waste) \in resolved_waste_type
    /\ mobile.customer = "All" \/ r.customer = mobile.customer

NoRecordMatches ==
    /\ \A i \in DOMAIN incoming_df :
          ~(MatchesSpecification(incoming_df[i]) /\ SatisfiesPrice(incoming_df[i]))
    /\ \A i \in DOMAIN outgoing_df : ~MatchesSpecification(outgoing_df[i])

\* C8: when the filter specification matches no record of either set, the
\* run raises nothing, both views are empty, the four KPIs are 0 and no
\* series has an entry.
C8_EmptyViewTotality ==
    (page = "dashboard" /\ mobile # NoWidgets /\ NoRecordMatches) =>
        /\ exception = "none"
        /\ filtered_incoming = <<>>
        /\ filtered_outgoing = <<>>
        /\ kpis = [incoming_total |-> 0, outgoing_total |-> 0, total_cost |-> 0,
                   avg_cost_tn |-> Num(0)]
        /\ charts = [waste_combined |-> {}, pie_data_in |-> {}, pie_data_out |-> {},
                     trend_df |-> {}, daily_cpt |-> {}]

\* The same, over the workbooks whose incoming sheet has a Cost column.
EmptyViewTotalityWithCostColumn ==
    "Cost" \in xlsx.incoming.columns => C8_EmptyViewTotality

\* A run over a sheet with a Cost column met a specification matching nothing.
EmptyViewReached ==
    /\ page = "dashboard" /\ mobile # NoWidgets /\ NoRecordMatches
    /\ "Cost" \in xlsx.incoming.columns
    /\ mobile.price_filter = "Priced"

\* C9: logged_in is false at first; dashboard() runs only with logged_in
\* true; logged_in becomes true only in a Login click whose credentials
\* check_password accepts, for one of the fixed users; it is false after a
\* Logout click; logged_in and login_error are never both true.
C9_LoginGate ==
    /\ session_state.logged_in = FALSE
    /\ [](page = "dashboard" => session_state.logged_in)
    /\ [](~(session_state.logged_in /\ session_state.login_error))
    /\ [][(~session_state.logged_in /\ session_state'.logged_in) =>
            /\ Login
            /\ session_state'.input_username \in {"admin", "god"}
            /\ users[session_state'.input_username]
                  = BcryptHash(session_state'.input_password)
            /\ session_state'.username = session_state'.input_username]_vars
    /\ [][Logout => (~session_state'.logged_in /\ page' = "login")]_vars
    /\ [][(session_state.logged_in /\ ~session_state'.logged_in) => Logout]_vars

\* The user god passed the gate and filters the dashboard by customer.
C9_Witness ==
    /\ page = "dashboard"
    /\ session_state.logged_in
    /\ session_state.username = "god"
    /\ ~session_state.login_error
    /\ mobile # NoWidgets
    /\ mobile.customer # "All"

\* C10: the run reads the expander's widgets only: with any other selection
\* in the sidebar it leaves the same views, KPIs, chart data and report.
C10_SidebarIgnored ==
    (page = "dashboard" /\ mobile # NoWidgets) =>
        \A s \in WidgetChoices(incoming_df) :
            LET r == dashboard(xlsx, s, mobile)
            IN  /\ r.exception = exception
                /\ r.filtered_incoming = filtered_incoming
                /\ r.filtered_outgoing = filtered_outgoing
                /\ r.kpis = kpis
                /\ r.charts = charts
                /\ r.file_name = file_name

\* The sidebar selects one customer and the view still holds another's rows.
C10_Witness ==
    /\ Completed
    /\ sidebar.customer \notin {"All", ""}
    /\ mobile.customer = "All"
    /\ \E i \in DOMAIN filtered_incoming :
          filtered_incoming[i].customer # sidebar.customer

====
